---- MODULE Spec2Model ----
(***************************************************************************)
(* Playback state machine of the CPU simulator component (src/src/App.tsx).*)
(*                                                                         *)
(* The component keeps three pieces of React state: currentStepIndex,      *)
(* memory and isAnimating.  memory is an array of references to cell       *)
(* objects; the array spread [...memory] copies the references, not the    *)
(* cells, so the cells are modelled as a heap addressed by reference.      *)
(* Every handler runs to completion and React re-renders before the next   *)
(* event is dispatched, so one handler call is one step.                   *)
(***************************************************************************)
EXTENDS Integers, Sequences, FiniteSets, TLC

\* Number of decay timers that may be pending at once.
MaxTimers == 3

\* Number of handleNext calls counted in a run made of handleNext calls only.
MaxNextCalls == 21

\* Number of entries drawn for the memoryUpdates of a candidate script.
MaxUpdates == 1

---------------------------------------------------------------------------
\* Optional values: undefined / null is the empty tuple, a present value v
\* is the one-element tuple <<v>>.
Undefined == <<>>

Some(v) == <<v>>

\* type MemoryCell
MemoryCell(address, content, type, description) ==
    [address |-> address, content |-> content, type |-> type,
     description |-> description]

\* The cell literals of INITIAL_MEMORY, in array order.  The descriptions are
\* Japanese display text in the source and are given here in English.
SeedTable ==
    << MemoryCell(0, "LOAD 10", "instruction", Some("data read")),
       MemoryCell(1, "ADD 11", "instruction", Some("add")),
       MemoryCell(2, "STORE 12", "instruction", Some("store")),
       MemoryCell(3, "HALT", "instruction", Some("halt")),
       MemoryCell(4, "0000", "empty", Undefined),
       MemoryCell(10, "3", "data", Some("data A")),
       MemoryCell(11, "5", "data", Some("data B")),
       MemoryCell(12, "0", "data", Some("result slot")) >>

\* References to the cell objects created by the INITIAL_MEMORY literal.
CellRefs == 1..Len(SeedTable)

\* The module-level array INITIAL_MEMORY: its elements are references.
INITIAL_MEMORY == [k \in CellRefs |-> k]

\* The heap right after the module is evaluated.
InitialHeap == [r \in CellRefs |-> SeedTable[r]]

\* type Step (title and message are display text and are left out)
Step(id, phase, activeComponents, busActive, pc, acc, ir, aluOperation, memoryUpdates) ==
    [id |-> id, phase |-> phase, activeComponents |-> activeComponents,
     busActive |-> busActive, pc |-> pc, acc |-> acc, ir |-> ir,
     aluOperation |-> aluOperation, memoryUpdates |-> memoryUpdates]

\* busActive: { from, to, value }
Bus(from, to, value) == Some([from |-> from, to |-> to, value |-> value])

\* The storyboard.  SCENARIO[i] of the source is SCENARIO[i + 1] here.
SCENARIO ==
    << Step(0, "IDLE", {}, Undefined, 0, 0, "", Undefined, Undefined),
       Step(1, "FETCH", {"PC", "AddressBus", "Memory"}, Bus("PC", "Memory", "0"),
            0, 0, "", Undefined, Undefined),
       Step(2, "FETCH", {"Memory", "DataBus", "IR"}, Bus("Memory", "IR", "LOAD 10"),
            0, 0, "LOAD 10", Undefined, Undefined),
       Step(3, "FETCH", {"PC"}, Undefined, 1, 0, "LOAD 10", Undefined, Undefined),
       Step(4, "DECODE", {"CU", "IR"}, Undefined, 1, 0, "LOAD 10", Undefined, Undefined),
       Step(5, "EXECUTE", {"CU", "AddressBus", "Memory"}, Bus("CU", "Memory", "10"),
            1, 0, "LOAD 10", Undefined, Undefined),
       Step(6, "EXECUTE", {"Memory", "DataBus", "ACC"}, Bus("Memory", "ACC", "3"),
            1, 3, "LOAD 10", Undefined, Undefined),
       Step(7, "FETCH", {"PC", "AddressBus", "Memory"}, Bus("PC", "Memory", "1"),
            1, 3, "", Undefined, Undefined),
       Step(8, "FETCH", {"Memory", "DataBus", "IR"}, Bus("Memory", "IR", "ADD 11"),
            1, 3, "ADD 11", Undefined, Undefined),
       Step(9, "FETCH", {"PC"}, Undefined, 2, 3, "ADD 11", Undefined, Undefined),
       Step(10, "DECODE", {"CU", "IR", "ALU"}, Undefined, 2, 3, "ADD 11", Undefined, Undefined),
       Step(11, "EXECUTE", {"CU", "AddressBus", "Memory"}, Bus("CU", "Memory", "11"),
            2, 3, "ADD 11", Undefined, Undefined),
       Step(12, "EXECUTE", {"Memory", "DataBus", "ALU"}, Bus("Memory", "ALU", "5"),
            2, 3, "ADD 11", Some("3 + 5"), Undefined),
       Step(13, "EXECUTE", {"ALU", "ACC"}, Bus("ALU", "ACC", "8"),
            2, 8, "ADD 11", Some("Done"), Undefined),
       Step(14, "FETCH", {"PC", "AddressBus", "Memory"}, Bus("PC", "Memory", "2"),
            2, 8, "", Undefined, Undefined),
       Step(15, "FETCH", {"Memory", "DataBus", "IR"}, Bus("Memory", "IR", "STORE 12"),
            2, 8, "STORE 12", Undefined, Undefined),
       Step(16, "FETCH", {"PC"}, Undefined, 3, 8, "STORE 12", Undefined, Undefined),
       Step(17, "DECODE", {"CU", "IR"}, Undefined, 3, 8, "STORE 12", Undefined, Undefined),
       Step(18, "EXECUTE", {"ACC", "DataBus", "AddressBus", "Memory"},
            Bus("ACC", "Memory", "8"), 3, 8, "STORE 12", Undefined,
            Some(<< [address |-> 12, value |-> "8"] >>)),
       Step(19, "IDLE", {"Memory"}, Undefined, 3, 8, "HALT", Undefined, Undefined) >>

---------------------------------------------------------------------------
VARIABLES
    script,            \* the Step array the component plays (SCENARIO)
    currentStepIndex,  \* useState(0)
    memory,            \* useState(INITIAL_MEMORY): an array of cell references
    heap,              \* the cell objects, by reference
    isAnimating,       \* useState(false)
    timers,            \* handles of the setTimeout callbacks not yet fired
    lastOp,            \* the handler or callback that ran last
    pre,               \* what was rendered before that handler ran
    called,            \* the handlers that have run so far
    nextCalls          \* handleNext calls so far, while no other handler ran

vars == << script, currentStepIndex, memory, heap, isAnimating, timers,
           lastOp, pre, called, nextCalls >>

\* SCENARIO.length
Length(s) == Len(s)

\* StepAt reading the step before the one asked for (SCENARIO[i - 1]).
StepAt_OffByOne(s, i) == IF i \in 1..Len(s) THEN Some(s[i]) ELSE Undefined

\* SCENARIO[i]: undefined outside the array
StepAt(s, i) == IF i + 1 \in 1..Len(s) THEN Some(s[i + 1]) ELSE Undefined

\* const step = SCENARIO[currentStepIndex]
step == StepAt(script, currentStepIndex)

\* The cells an array of references shows: what memory.map renders.
Cells(mem, h) == [k \in 1..Len(mem) |-> h[mem[k]]]

\* The content strings of the cells of an array.
Contents(mem, h) == [k \in 1..Len(mem) |-> h[mem[k]].content]

\* What one render observes of the state, and the timers pending then.
Rendered ==
    [currentStepIndex |-> currentStepIndex,
     cells |-> Cells(memory, heap),
     isAnimating |-> isAnimating,
     timers |-> timers]

---------------------------------------------------------------------------
\* CanNext stopping one step early (SCENARIO.length - 2).
CanNext_StopsEarly(i, s) == i < Length(s) - 2

\* handleNext, line 254: currentStepIndex < SCENARIO.length - 1
CanNext(i, s) == i < Length(s) - 1

\* NextIndex skipping a step.
NextIndex_ByTwo(i) == i + 2

\* handleNext, line 255: const nextIndex = currentStepIndex + 1
NextIndex(i) == i + 1

\* Find as it would be if the address were used as an array index
\* (newMemory[update.address]).
Find_ByIndex(mem, h, address) ==
    IF address + 1 \in 1..Len(mem) THEN address + 1 ELSE 0

\* newMemory.find(m => m.address === update.address): the position of the
\* first cell with that address, 0 when find returns undefined.
Find(mem, h, address) ==
    LET hits == {k \in 1..Len(mem) : h[mem[k]].address = address}
    IN  IF hits = {} THEN 0
        ELSE CHOOSE k \in hits : \A j \in hits : k <= j

\* The forEach body as it would be with an assignment in the find callback
\* (m.address = update.address): the first cell takes the address, and, the
\* address being truthy, is the cell found and written.
ApplyUpdate_AssignsInFind(h, mem, update) ==
    IF update.address = 0 THEN h
    ELSE [h EXCEPT ![mem[1]].address = update.address,
                   ![mem[1]].content = update.value]

\* One pass of the forEach body: if (cell) cell.content = update.value.
\* The assignment writes the cell object the array element refers to.
ApplyUpdate(h, mem, update) ==
    LET k == Find(mem, h, update.address)
    IN  IF k = 0 THEN h
        ELSE [h EXCEPT ![mem[k]].content = update.value]

\* nextStep.memoryUpdates.forEach(...), in array order.
RECURSIVE ApplyUpdates(_, _, _)
ApplyUpdates(h, mem, updates) ==
    IF updates = <<>> THEN h
    ELSE ApplyUpdates(ApplyUpdate(h, mem, Head(updates)), mem, Tail(updates))

\* const newMemory = [...memory]: a new array holding the same references.
Spread(mem) == [k \in 1..Len(mem) |-> mem[k]]

\* ScheduleTimer with the callback never registered.
ScheduleTimer_Dropped(ts) == ts

\* setTimeout(() => setIsAnimating(false), 1000): one more pending callback.
\* The handle is the smallest one not in use.
ScheduleTimer(ts) ==
    ts \cup {CHOOSE t \in (1..MaxTimers) \ ts :
                 \A u \in (1..MaxTimers) \ ts : t <= u}

\* CanPrev with the guard off by one (currentStepIndex >= 0).
CanPrev_AtZero(i) == i >= 0

\* handlePrev, line 275: currentStepIndex > 0
CanPrev(i) == i > 0

\* PrevIndex stepping back two steps.
PrevIndex_ByTwo(i) == i - 2

\* handlePrev, line 276: currentStepIndex - 1
PrevIndex(i) == i - 1

\* handlePrev, line 280: the literal in currentStepIndex <= 18
ResyncLimit == 18

\* handlePrev, line 280
NeedsResync(i) == i <= ResyncLimit

\* Bookkeeping shared by the handlers: which handler ran, what was rendered
\* before it, and the count of handleNext calls of a run of handleNext only.
Record(op) ==
    /\ lastOp' = op
    /\ pre' = Rendered
    /\ called' = IF op = "timer" THEN called ELSE called \cup {op}
    /\ nextCalls' = IF op = "timer" THEN nextCalls
                    ELSE IF op = "next" /\ called \subseteq {"next"}
                         THEN nextCalls + 1
                         ELSE 0

\* The component mounted on the script s: the useState initial values.
Mounted(s) ==
    /\ script = s
    /\ currentStepIndex = 0
    /\ memory = INITIAL_MEMORY
    /\ heap = InitialHeap
    /\ isAnimating = FALSE
    /\ timers = {}
    /\ lastOp = "mount"
    /\ pre = Rendered
    /\ called = {}
    /\ nextCalls = 0

Init == Mounted(SCENARIO)

\* handleReset without its setIsAnimating(false).
HandleReset_KeepsAnimating ==
    /\ currentStepIndex' = 0
    /\ memory' = INITIAL_MEMORY
    /\ UNCHANGED << script, heap, timers, isAnimating >>
    /\ Record("reset")

\* const handleReset = () => { ... }
HandleReset ==
    /\ currentStepIndex' = 0
    /\ memory' = INITIAL_MEMORY
    /\ isAnimating' = FALSE
    /\ UNCHANGED << script, heap, timers >>
    /\ Record("reset")

\* handleNext with lines 268-270 placed after the if block instead of in it.
HandleNext_AnimateOutsideGuard ==
    /\ called \subseteq {"next"} => nextCalls < MaxNextCalls
    /\ Cardinality(timers) < MaxTimers
    /\ IF CanNext(currentStepIndex, script)
       THEN LET nextStep == StepAt(script, NextIndex(currentStepIndex))
            IN  /\ nextStep # Undefined
                /\ IF nextStep[1].memoryUpdates # Undefined
                   THEN /\ heap' = ApplyUpdates(heap, Spread(memory),
                                                nextStep[1].memoryUpdates[1])
                        /\ memory' = Spread(memory)
                   ELSE UNCHANGED << memory, heap >>
                /\ currentStepIndex' = NextIndex(currentStepIndex)
       ELSE UNCHANGED << currentStepIndex, memory, heap >>
    /\ isAnimating' = TRUE
    /\ timers' = ScheduleTimer(timers)
    /\ UNCHANGED script
    /\ Record("next")

\* const handleNext = () => { ... }
HandleNext ==
    /\ called \subseteq {"next"} => nextCalls < MaxNextCalls
    /\ IF CanNext(currentStepIndex, script)
       THEN LET nextIndex == NextIndex(currentStepIndex)
                nextStep == StepAt(script, nextIndex)
            IN  IF nextStep = Undefined
                THEN \* nextStep.memoryUpdates throws a TypeError before any
                     \* setter is called
                     UNCHANGED << currentStepIndex, memory, heap, isAnimating, timers >>
                ELSE /\ Cardinality(timers) < MaxTimers
                     /\ IF nextStep[1].memoryUpdates # Undefined
                        THEN LET newMemory == Spread(memory)
                             IN  /\ heap' = ApplyUpdates(heap, newMemory,
                                                         nextStep[1].memoryUpdates[1])
                                 /\ memory' = newMemory
                        ELSE UNCHANGED << memory, heap >>
                     /\ currentStepIndex' = nextIndex
                     /\ isAnimating' = TRUE
                     /\ timers' = ScheduleTimer(timers)
       ELSE UNCHANGED << currentStepIndex, memory, heap, isAnimating, timers >>
    /\ UNCHANGED script
    /\ Record("next")

\* const handlePrev = () => { ... }
HandlePrev ==
    /\ IF CanPrev(currentStepIndex)
       THEN /\ currentStepIndex' = PrevIndex(currentStepIndex)
            /\ IF NeedsResync(currentStepIndex)
               THEN memory' = INITIAL_MEMORY
               ELSE UNCHANGED memory
       ELSE UNCHANGED << currentStepIndex, memory >>
    /\ UNCHANGED << script, heap, isAnimating, timers >>
    /\ Record("prev")

\* The callback as it would be if it reset the whole simulation (handleReset
\* passed to setTimeout) instead of the flag alone.
TimerFire_ResetsPlayback(t) ==
    /\ t \in timers
    /\ timers' = timers \ {t}
    /\ isAnimating' = FALSE
    /\ currentStepIndex' = 0
    /\ memory' = INITIAL_MEMORY
    /\ UNCHANGED << script, heap >>
    /\ Record("timer")

\* The callback leaving the flag as it is.
TimerFire_KeepsFlag(t) ==
    /\ t \in timers
    /\ timers' = timers \ {t}
    /\ UNCHANGED << script, currentStepIndex, memory, heap, isAnimating >>
    /\ Record("timer")

\* () => setIsAnimating(false), run by the timer with handle t
TimerFire(t) ==
    /\ t \in timers
    /\ timers' = timers \ {t}
    /\ isAnimating' = FALSE
    /\ UNCHANGED << script, currentStepIndex, memory, heap >>
    /\ Record("timer")

TimerFires == \E t \in timers : TimerFire(t)

Next ==
    \/ HandleNext
    \/ HandlePrev
    \/ HandleReset
    \/ TimerFires

Spec == Init /\ [][Next]_vars

\* The browser runs every pending timeout callback.
FairSpec == Spec /\ WF_vars(TimerFires)

\* The addresses of the seed table.
SeedAddresses == {SeedTable[k].address : k \in 1..Len(SeedTable)}

\* Entries a script author may put in a step's memoryUpdates: an address of
\* the seed table (12) or one absent from it (5), with one of two values.
CandidateUpdates ==
    {[address |-> a, value |-> v] : a \in {5, 12}, v \in {"8", "9"}}

\* The non-empty sequences over S of at most n entries.
RECURSIVE SeqsUpTo(_, _)
SeqsUpTo(S, n) ==
    IF n <= 1 THEN {<<x>> : x \in S}
    ELSE SeqsUpTo(S, n - 1)
         \cup {Append(q, x) : q \in SeqsUpTo(S, n - 1), x \in S}

\* The place in SCENARIO of the step that carries memoryUpdates (id 18).
StoreStep ==
    CHOOSE k \in 1..Len(SCENARIO) : SCENARIO[k].memoryUpdates # Undefined

\* SCENARIO with the memoryUpdates of that step rewritten.
CandidateScripts ==
    {[SCENARIO EXCEPT ![StoreStep].memoryUpdates = Some(u)] :
        u \in SeqsUpTo(CandidateUpdates, MaxUpdates)}

\* The component mounted on any candidate script: the module defines the
\* array and the component plays it; no code inspects it first.
InitLoad == \E s \in CandidateScripts : Mounted(s)

SpecLoad == InitLoad /\ [][Next]_vars

\* Registers with the accumulator slot showing step.pc.
Registers_AccShowsPc ==
    [pc |-> step[1].pc, ir |-> step[1].ir, acc |-> step[1].pc]

\* The register values the render reads: {step.pc}, {step.ir}, {step.acc}.
Registers == [pc |-> step[1].pc, ir |-> step[1].ir, acc |-> step[1].acc]

\* The text of the IR box: {step.ir || "----"}.
DisplayedIR == IF step[1].ir = "" THEN "----" ELSE step[1].ir

---------------------------------------------------------------------------
\* Properties.  The definitions below state what is checked of the model;
\* Replay is the reference the data model gives for memory, not code.

\* The memory the data model prescribes for position p: the seed table with
\* the memoryUpdates of steps 1..p applied in step order.
RECURSIVE Replay(_, _)
Replay(s, p) ==
    IF p <= 0 THEN InitialHeap
    ELSE IF s[p + 1].memoryUpdates = Undefined THEN Replay(s, p - 1)
         ELSE ApplyUpdates(Replay(s, p - 1), INITIAL_MEMORY,
                           s[p + 1].memoryUpdates[1])

ReplayedCells(s, p) == Cells(INITIAL_MEMORY, Replay(s, p))

\* The content shown for an address (the first cell with it).
ContentAt(address) ==
    LET k == CHOOSE j \in 1..Len(memory) :
                 /\ heap[memory[j]].address = address
                 /\ \A i \in 1..(j - 1) : heap[memory[i]].address # address
    IN  heap[memory[k]].content

\* SCENARIO.length - 1
LastIndex == Length(script) - 1

\* C1: in every state reached by handleNext and handlePrev calls alone, memory
\* is the seed table with the memoryUpdates of steps 1..currentStepIndex
\* applied in step order; so the content at address 12 is "0" before step 18
\* and "8" from step 18 on.
C1_MemoryIsReplayOfSeed ==
    "reset" \notin called =>
        /\ Cells(memory, heap) = ReplayedCells(script, currentStepIndex)
        /\ ContentAt(12) = IF currentStepIndex < 18 THEN "0" ELSE "8"

\* C2: after handleReset, currentStepIndex is 0 and memory is the original
\* seed table, whatever calls came before.
C2_ResetRestoresSeed ==
    lastOp = "reset" =>
        /\ currentStepIndex = 0
        /\ Cells(memory, heap) = SeedTable
        /\ ContentAt(12) = "0"

\* C3: handleNext from a position p < length - 1 followed by handlePrev gives
\* back position p and the memory rendered before the pair of calls.
C3_NextThenPrevRoundTrip ==
    [][(/\ lastOp = "next"
        /\ pre.currentStepIndex < LastIndex
        /\ lastOp' = "prev")
       => (/\ currentStepIndex' = pre.currentStepIndex
           /\ Cells(memory', heap') = pre.cells)]_vars

\* A run made of handleNext calls only (timer callbacks may fire in between).
OnlyNextCalled == called \subseteq {"next"}

\* C4: in every reachable state 0 <= currentStepIndex < SCENARIO.length = 20,
\* so SCENARIO[currentStepIndex] is a defined step.
C4_PositionInRange ==
    /\ 0 <= currentStepIndex
    /\ currentStepIndex < Length(script)
    /\ Length(script) = 20
    /\ step # Undefined

\* The last step reached again after a reset and a step back, with a timer
\* callback run last.
C4_Witness ==
    /\ currentStepIndex = LastIndex
    /\ {"prev", "reset"} \subseteq called
    /\ lastOp = "timer"

\* C5: handleNext at the last position changes nothing: position, memory,
\* isAnimating and the pending timers are as before the call.
C5_NextAtEndIsNoOp ==
    (lastOp = "next" /\ pre.currentStepIndex = LastIndex) =>
        /\ currentStepIndex = pre.currentStepIndex
        /\ Cells(memory, heap) = pre.cells
        /\ isAnimating = pre.isAnimating
        /\ timers = pre.timers

\* handleNext was called at the last position.
C5_Witness == lastOp = "next" /\ pre.currentStepIndex = LastIndex

\* C6: handlePrev at position 0 changes nothing: position, memory and
\* isAnimating are as before the call.
C6_PrevAtStartIsNoOp ==
    (lastOp = "prev" /\ pre.currentStepIndex = 0) =>
        /\ currentStepIndex = 0
        /\ Cells(memory, heap) = pre.cells
        /\ isAnimating = pre.isAnimating

\* handlePrev was called at position 0.
C6_Witness == lastOp = "prev" /\ pre.currentStepIndex = 0

\* C7: in a run of handleNext calls from the initial state the content at
\* address 12 is "0" up to the 17th call and "8" from the 18th call on,
\* through the 19th call and every further call.
C7_StoreAppliedAndKept ==
    OnlyNextCalled =>
        ContentAt(12) = IF nextCalls >= 18 THEN "8" ELSE "0"

\* handleNext was called again after the run had reached the last step.
C7_Witness ==
    /\ called = {"next"}
    /\ nextCalls > LastIndex + 1
    /\ lastOp = "next"
    /\ currentStepIndex = LastIndex

\* C8: the registers shown are those of the step at the current position:
\* pc 0, acc 0, ir "" at position 0; acc 3 after exactly 6 handleNext calls
\* from the initial state and acc 8 after exactly 13; and they are a function
\* of the position alone.
C8_RegistersOfCurrentStep ==
    /\ step # Undefined
    /\ Registers = [pc |-> SCENARIO[currentStepIndex + 1].pc,
                    ir |-> SCENARIO[currentStepIndex + 1].ir,
                    acc |-> SCENARIO[currentStepIndex + 1].acc]
    /\ DisplayedIR \in {SCENARIO[currentStepIndex + 1].ir, "----"}
    /\ currentStepIndex = 0 => Registers = [pc |-> 0, ir |-> "", acc |-> 0]
    /\ (OnlyNextCalled /\ nextCalls = 6) => Registers.acc = 3
    /\ (OnlyNextCalled /\ nextCalls = 13) => Registers.acc = 8

\* The 13th handleNext call of a run of handleNext calls has just returned.
C8_Witness == called = {"next"} /\ nextCalls = 13 /\ lastOp = "next"

\* The memoryUpdates entries of a step (none when the field is undefined).
UpdatesOf(st) == IF st.memoryUpdates = Undefined THEN <<>> ELSE st.memoryUpdates[1]

\* The step names an address that no cell of the seed table has.
HasAbsentAddress(st) ==
    \E k \in 1..Len(UpdatesOf(st)) : UpdatesOf(st)[k].address \notin SeedAddresses

\* C9: a script whose memoryUpdates names an address absent from the seed
\* table is rejected when it is loaded, so playback never reaches the step
\* that names the absent address.
C9_AbsentAddressNeverPlayed ==
    ~ (/\ lastOp = "next"
       /\ currentStepIndex = pre.currentStepIndex + 1
       /\ HasAbsentAddress(step[1]))

\* C10: every handleNext that moves the position sets isAnimating and adds a
\* pending callback; every callback that runs was pending, put there by an
\* earlier handleNext; and, every pending callback being run eventually,
\* isAnimating always becomes false again.
C10_AnimationDecays ==
    /\ [][(lastOp' = "next" /\ currentStepIndex' # currentStepIndex) =>
            (/\ isAnimating'
             /\ timers \subseteq timers'
             /\ Cardinality(timers') = Cardinality(timers) + 1)]_vars
    /\ [][lastOp' = "timer" =>
            (/\ "next" \in called
             /\ \E t \in timers : timers' = timers \ {t})]_vars
    /\ [](timers # {} => "next" \in called)
    /\ (isAnimating ~> ~isAnimating)

\* A timer callback has just switched isAnimating off.
C10_Witness == lastOp = "timer" /\ pre.isAnimating /\ ~isAnimating

\* C11: handleReset leaves isAnimating false whatever it was, and isAnimating
\* goes from false to true only in a handleNext that moves the position; in
\* particular the callbacks still pending at the reset leave it false when
\* they run.
C11_ResetClearsAnimating ==
    /\ [](lastOp = "reset" => ~isAnimating)
    /\ [][(~isAnimating /\ isAnimating') =>
            (/\ lastOp' = "next"
             /\ currentStepIndex' = currentStepIndex + 1)]_vars
    /\ [][(lastOp' = "timer" /\ ~isAnimating) => ~isAnimating']_vars

\* A callback scheduled before the only way back to position 0 (a reset) has
\* run after that reset, with no handleNext in between, and isAnimating is
\* still false.
C11_Witness ==
    /\ lastOp = "timer"
    /\ "reset" \in called
    /\ "prev" \notin called
    /\ pre.currentStepIndex = 0
    /\ currentStepIndex = 0
    /\ ~pre.isAnimating
    /\ ~isAnimating

\* The addresses a list of memoryUpdates names.
UpdatedAddresses(updates) == {updates[j].address : j \in 1..Len(updates)}

\* The value the last entry for address a gives.
LastValue(updates, a) ==
    LET js == {j \in 1..Len(updates) : updates[j].address = a}
    IN  updates[CHOOSE j \in js : \A i \in js : i <= j].value

\* C12: position and memory change in one step.  The rendered cells never
\* change while the position stays; the step of handleNext that installs the
\* new position already shows the contents written by the step entered; and
\* the step of handleReset that installs position 0 installs INITIAL_MEMORY.
C12_PositionAndMemoryTogether ==
    /\ [][Cells(memory', heap') # Cells(memory, heap) =>
            currentStepIndex' # currentStepIndex]_vars
    /\ [][(lastOp' = "next" /\ currentStepIndex' # currentStepIndex) =>
            LET updates == UpdatesOf(script[currentStepIndex' + 1])
            IN  \A k \in 1..Len(memory') :
                    heap'[memory'[k]].address \in UpdatedAddresses(updates) =>
                        heap'[memory'[k]].content =
                            LastValue(updates, heap'[memory'[k]].address)]_vars
    /\ [][lastOp' = "reset" =>
            (currentStepIndex' = 0 /\ memory' = INITIAL_MEMORY)]_vars

\* handleNext has just entered the step that carries memoryUpdates: the new
\* position and the written content are rendered together.
C12_Witness ==
    /\ lastOp = "next"
    /\ currentStepIndex = pre.currentStepIndex + 1
    /\ UpdatesOf(script[currentStepIndex + 1]) # <<>>
    /\ Cells(memory, heap) # pre.cells

\* C13: the cells of INITIAL_MEMORY keep their original contents in every
\* reachable state (address 12 stays "0"); handleNext writes only to the
\* memory of the session.
C13_SeedNeverModified ==
    /\ Cells(INITIAL_MEMORY, heap) = SeedTable
    /\ \A k \in 1..Len(INITIAL_MEMORY) :
           heap[INITIAL_MEMORY[k]].address = 12 =>
               heap[INITIAL_MEMORY[k]].content = "0"

\* The cells after the contents named by a list of memoryUpdates have been
\* overwritten, the last entry for an address giving its content; every
\* other field and every other cell is as before.
ExpectedAfterUpdates(cells, updates) ==
    [k \in 1..Len(cells) |->
        IF /\ cells[k].address \in UpdatedAddresses(updates)
           /\ \A i \in 1..(k - 1) : cells[i].address # cells[k].address
        THEN [cells[k] EXCEPT !.content = LastValue(updates, cells[k].address)]
        ELSE cells[k]]

C15_TimerFrame ==
    lastOp = "timer" =>
        /\ ~isAnimating
        /\ currentStepIndex = pre.currentStepIndex
        /\ Cells(memory, heap) = pre.cells
        /\ Cardinality(timers) + 1 = Cardinality(pre.timers)

\* A callback has run past the first step while another is still pending,
\* after handlePrev and handleReset calls.
C15_Witness ==
    /\ lastOp = "timer"
    /\ currentStepIndex > 0
    /\ timers # {}
    /\ {"prev", "reset"} \subseteq called

\* C19: whenever isAnimating is true a callback scheduled by an earlier
\* handleNext is still pending, in every interleaving of the handlers and the
\* callbacks.
C19_AnimatingHasPendingTimer ==
    isAnimating => (timers # {} /\ "next" \in called)

\* isAnimating is true with exactly one callback left, after handlePrev and
\* handleReset calls and an earlier callback.
C19_Witness ==
    /\ isAnimating
    /\ Cardinality(timers) = 1
    /\ lastOp = "next"
    /\ {"prev", "reset"} \subseteq called

\* The addresses named by the memoryUpdates of the steps of a script.
ScriptAddresses(s) ==
    UNION {UpdatedAddresses(UpdatesOf(s[k])) : k \in 1..Len(s)}

\* C16: the rendered memory always has the addresses of the seed table,
\* 0, 1, 2, 3, 4, 10, 11, 12, once each and in that order, with the type and
\* description of the seed; only a content can differ from the seed, and only
\* at an address that some step's memoryUpdates names (address 12).
C16_MemoryShape ==
    /\ Len(memory) = Len(SeedTable)
    /\ [k \in 1..Len(memory) |-> heap[memory[k]].address]
           = << 0, 1, 2, 3, 4, 10, 11, 12 >>
    /\ \A k \in 1..Len(memory) :
           /\ heap[memory[k]].address = SeedTable[k].address
           /\ heap[memory[k]].type = SeedTable[k].type
           /\ heap[memory[k]].description = SeedTable[k].description
           /\ heap[memory[k]].content # SeedTable[k].content =>
                  /\ heap[memory[k]].address \in ScriptAddresses(script)
                  /\ heap[memory[k]].address = 12

\* A content differs from the seed, with handlePrev and handleReset called
\* since.
C16_Witness ==
    /\ \E k \in 1..Len(memory) : heap[memory[k]].content # SeedTable[k].content
    /\ lastOp \in {"prev", "reset"}
    /\ currentStepIndex < ResyncLimit

---------------------------------------------------------------------------
\* The decimal digits of String(n).
Digit(d) == << "0", "1", "2", "3", "4", "5", "6", "7", "8", "9" >>[d + 1]

\* String(cell.address): the decimal text of a non-negative integer.
RECURSIVE String(_)
String(n) == IF n < 10 THEN Digit(n) ELSE String(n \div 10) \o Digit(n % 10)

\* const isActive = (compName) => step.activeComponents.includes(compName)
IsActive(compName) == compName \in step[1].activeComponents

\* step.busActive?.<field> === value: false when busActive is null
BusField(field, value) ==
    /\ step[1].busActive # Undefined
    /\ step[1].busActive[1][field] = value

\* const isTarget = isActive('Memory') && ( ... ), lines 435-441
IsTarget(cell) ==
    /\ IsActive("Memory")
    /\ \/ BusField("to", "Memory") /\ BusField("value", cell.content)
       \/ BusField("from", "Memory") /\ BusField("value", cell.content)
       \/ BusField("from", "CU") /\ BusField("value", String(cell.address))
       \/ BusField("from", "PC") /\ BusField("value", String(cell.address))
       \/ cell.address \in UpdatedAddresses(UpdatesOf(step[1]))

\* const isAddressed = isActive('AddressBus') && (String(step.busActive?.value)
\* === String(cell.address)), line 444; String(undefined) is no decimal text.
IsAddressed(cell) ==
    /\ IsActive("AddressBus")
    /\ BusField("value", String(cell.address))

\* The current step sends an address from the PC or the CU to the memory.
AddressTransfer ==
    /\ step[1].busActive # Undefined
    /\ step[1].busActive[1].to = "Memory"
    /\ step[1].busActive[1].from \in {"PC", "CU"}

\* C17: at every position, with the memory prescribed for it, when the bus
\* transfer of the step carries an address from the PC or the CU to the
\* memory, a cell is highlighted only if its address is the value
\* transferred; a content equal to that value highlights nothing.
C17_HighlightByAddressOnly ==
    (/\ AddressTransfer
     /\ Cells(memory, heap) = ReplayedCells(script, currentStepIndex)) =>
        \A k \in 1..Len(memory) :
            (IsTarget(heap[memory[k]]) \/ IsAddressed(heap[memory[k]])) =>
                String(heap[memory[k]].address) = step[1].busActive[1].value

---------------------------------------------------------------------------
\* The reference accumulator machine of the narration: LOAD addr, ADD addr,
\* STORE addr, HALT, run on the contents of the seed table.

\* The text of an instruction.
Instr(op, arg) == IF op = "HALT" THEN "HALT" ELSE op \o " " \o String(arg)

\* The instruction a content denotes.
Decode(content) ==
    CHOOSE d \in [op : {"LOAD", "ADD", "STORE", "HALT"}, arg : SeedAddresses] :
        Instr(d.op, d.arg) = content

\* The number a content denotes.
ParseInt(content) == CHOOSE n \in 0..99 : String(n) = content

\* The seed table as a map from address to content.
SeedMem ==
    [a \in SeedAddresses |->
        SeedTable[CHOOSE k \in 1..Len(SeedTable) : SeedTable[k].address = a].content]

Machine0 == [pc |-> 0, acc |-> 0, mem |-> SeedMem, halted |-> FALSE]

\* One fetch-decode-execute cycle.
Exec(m) ==
    LET d == Decode(m.mem[m.pc])
    IN  CASE m.halted -> m
          [] d.op = "LOAD" ->
                [m EXCEPT !.pc = m.pc + 1, !.acc = ParseInt(m.mem[d.arg])]
          [] d.op = "ADD" ->
                [m EXCEPT !.pc = m.pc + 1, !.acc = m.acc + ParseInt(m.mem[d.arg])]
          [] d.op = "STORE" ->
                [m EXCEPT !.pc = m.pc + 1, !.mem[d.arg] = String(m.acc)]
          [] OTHER -> [m EXCEPT !.halted = TRUE]

\* The machine after k instructions.
RECURSIVE Run(_)
Run(k) == IF k = 0 THEN Machine0 ELSE Exec(Run(k - 1))

\* C18: the scripted trace agrees with the reference machine: at the steps
\* that end the three instructions (6, 13, 18) the registers shown are the pc
\* and acc of the machine after 1, 2 and 3 instructions (pc 1, 2, 3; acc 3,
\* 8, 8), and from the STORE step on the rendered memory is the machine's
\* memory, with memory[12] = acc = 8; the fourth instruction halts.
C18_TraceMatchesMachine ==
    /\ \A k \in 1..3 :
           currentStepIndex = << 6, 13, 18 >>[k] =>
               /\ Registers.pc = Run(k).pc
               /\ Registers.acc = Run(k).acc
               /\ Registers.pc = k
               /\ Registers.acc = << 3, 8, 8 >>[k]
    /\ currentStepIndex >= 18 =>
           /\ \A j \in 1..Len(memory) :
                  heap[memory[j]].content = Run(3).mem[heap[memory[j]].address]
           /\ ContentAt(12) = String(Run(3).acc)
           /\ ContentAt(12) = "8"
    /\ Run(4).halted /\ ~Run(3).halted

\* The handleNext that enters the STORE step has just run in a run of
\* handleNext calls.
C18_Witness ==
    /\ currentStepIndex = 18
    /\ lastOp = "next"
    /\ called = {"next"}
    /\ ContentAt(12) # pre.cells[Len(memory)].content

---------------------------------------------------------------------------
\* The handler of the forward button, lines 502-516: handleNext before the
\* last step, handleReset at it.
ForwardControl ==
    IF currentStepIndex < Length(script) - 1 THEN "handleNext" ELSE "handleReset"

\* A learner who only presses forward, calling handleNext: the handleNext
\* calls and the timer callbacks, each eventually run while it can.
NextAdvance ==
    \/ HandleNext
    \/ TimerFires

AdvanceSpec ==
    /\ Init
    /\ [][NextAdvance]_vars
    /\ WF_vars(HandleNext)
    /\ WF_vars(TimerFires)

\* C20: playback terminates.  Each handleNext below the last step moves
\* exactly one step, so length - 1 - p calls lead from p to the last step;
\* after n calls from the start the position is min(n, 19); every position
\* 0..19 is reached and the run ends at 19 for good, where handleNext changes
\* nothing and the forward button calls handleReset.
C20_PlaybackTerminates ==
    /\ [][(lastOp' = "next" /\ currentStepIndex < LastIndex) =>
            currentStepIndex' = currentStepIndex + 1]_vars
    /\ [][(lastOp' = "next" /\ currentStepIndex = LastIndex) =>
            (/\ currentStepIndex' = currentStepIndex
             /\ Cells(memory', heap') = Cells(memory, heap)
             /\ isAnimating' = isAnimating
             /\ timers' = timers)]_vars
    /\ [](currentStepIndex =
            IF nextCalls < LastIndex THEN nextCalls ELSE LastIndex)
    /\ [](ForwardControl = "handleReset" <=> currentStepIndex = 19)
    /\ \A p \in 0..(Len(SCENARIO) - 1) : <>(currentStepIndex = p)
    /\ <>[](currentStepIndex = LastIndex)

\* The run has reached the last step in exactly 19 calls and the forward
\* button now calls handleReset.
C20_Witness ==
    /\ currentStepIndex = LastIndex
    /\ nextCalls = LastIndex
    /\ pre.currentStepIndex = LastIndex - 1
    /\ ForwardControl = "handleReset"

====
